---- MODULE Spec2Model ----
(***************************************************************************)
(* Cart / checkout service of QKart (cart.service.js, src/unnamed/part_000) *)
(* together with the per-request user load of src/src/config/passport.js.  *)
(*                                                                         *)
(* One user identity (one email) is modelled: carts of different users     *)
(* never share a document.  Every request runs as a process whose steps    *)
(* are the stretches of code between two awaits: JavaScript runs such a    *)
(* stretch without interruption, and other requests run at the awaits.     *)
(*                                                                         *)
(* Persistence is Mongoose: findOne returns a private copy of the stored   *)
(* document, and save() sends only what the request changed on its copy:   *)
(*   cartItems.push(x)          -> append x, increment __v                 *)
(*   cartItems[i].quantity = q  -> set that position, only if __v is the   *)
(*                                 version that was read                   *)
(*   cartItems.splice / = []    -> replace the array, only if __v is the   *)
(*                                 version that was read; increment __v    *)
(*   user.walletMoney = w       -> set the field                           *)
(* A save whose version condition fails rejects with a VersionError.       *)
(***************************************************************************)
EXTENDS Integers, Sequences, FiniteSets, TLC

(* ----------------------------- bounds ---------------------------------- *)
\* number of requests that can be in progress at the same time
NumProcs == 2
\* number of service calls made in one run
MaxCalls == 2

Procs == 1..NumProcs

\* the unit costs a product can be given
Costs == {1, 2, 3}

\* product identifiers: "p1" and "p2" are in the catalog, "px" is not
ProductIds == {"p1", "p2", "px"}
Quantities == {1, 2}
InitWallets == {1, 4}

(* --------------------------- collaborators ----------------------------- *)
\* the "products" collection at the start of a run: identifier -> unit cost
Catalog == [p1 |-> 2, p2 |-> 1]

NullProduct == [id |-> "null", cost |-> 0]

\* the product document of productId in a products collection
ProductDoc(productId, products) ==
    IF productId \in DOMAIN products
    THEN [id |-> productId, cost |-> products[productId]]
    ELSE NullProduct

default_payment_option == "PAYMENT_OPTION_DEFAULT"

\* the result of Cart.findOne when the user has no cart
NullCart == [exists |-> FALSE, cartItems |-> <<>>, paymentOption |-> "", v |-> 0]

(* ------------------------------ results -------------------------------- *)
BAD_REQUEST == 400
NOT_FOUND == 404
INTERNAL_SERVER_ERROR == 500

\* the call is still running
NoResult == [status |-> 0, message |-> ""]
\* the call returned without throwing
Returned == [status |-> 0, message |-> "returned"]
ApiError(status, message) == [status |-> status, message |-> message]
\* the rejection of a save whose version condition did not match
VersionError == [status |-> INTERNAL_SERVER_ERROR, message |-> "VersionError"]

\* the error kinds of the interface; the only 500 the service throws itself
\* is the failed cart creation, the kind the interface calls Conflict
Kind(r) ==
    CASE r = Returned -> "Ok"
      [] r.status = NOT_FOUND -> "NotFound"
      [] r.status = BAD_REQUEST -> "InvalidRequest"
      [] r.status = INTERNAL_SERVER_ERROR /\ r # VersionError -> "Conflict"
      [] OTHER -> "Internal"

(* ------------------------------- state --------------------------------- *)
VARIABLES
    cart,         \* the stored cart document of the user (NullCart: none)
    walletMoney,  \* the stored walletMoney of the user document
    addressSet,   \* whether the stored user has a non-default address
    pc,           \* per request: where it stands
    op,           \* per request: [name, productId, quantity]
    user,         \* per request: walletMoney of its own copy of the user
    lcart,        \* per request: its own copy of the cart document
    index,        \* per request: position found by the search loop
    result,       \* per request: what the call returned or threw
    pendUser,     \* per request: user.save() issued and not yet applied
    pendCart,     \* per request: userCart.save() issued and not yet applied
    calls,        \* number of calls started
    catalog,      \* the stored "products" collection
    jwt,          \* the jwtVerify call of passport: [pc, payload, done]
    h             \* history, read by the properties only

vars == <<cart, walletMoney, addressSet, pc, op, user, lcart, index, result,
          pendUser, pendCart, calls, catalog, jwt, h>>

\* Product.findOne({_id: productId}) / Product.findById(productId)
Product_findOne(productId) == ProductDoc(productId, catalog)

NoOp == [name |-> "none", productId |-> "px", quantity |-> 1]

\* history of one request
NoHist == [pre |-> [cart |-> NullCart, walletMoney |-> 0],
           overlap |-> FALSE, looked |-> FALSE, total |-> 0, owed |-> 0,
           userSave |-> "none", cartSave |-> "none", cleared |-> 0]

\* a line item holding the product document of the initial collection
Item(productId, quantity) ==
    [product |-> ProductDoc(productId, Catalog), quantity |-> quantity]

\* the token types of config/tokens
tokenTypes == [ACCESS |-> "access", REFRESH |-> "refresh"]

\* the ids of the users collection, and the subjects a token can carry
UserIds == {"u1"}
Subjects == {"u1", "u2"}

Payloads == [type : {tokenTypes.ACCESS, tokenTypes.REFRESH}, sub : Subjects]

\* no jwtVerify call has been made
NoJwt == [pc |-> "idle", payload |-> [type |-> tokenTypes.ACCESS, sub |-> "u1"],
          done |-> <<>>]

\* one invocation of the done callback: done(err, user, info)
Done(err, usr, info) == [err |-> err, user |-> usr, info |-> info]

\* the carts a run starts from: none; the empty cart that addProductToCart
\* creates; a cart after two additions
InitCarts ==
    {NullCart,
     [exists |-> TRUE, cartItems |-> <<>>,
      paymentOption |-> default_payment_option, v |-> 0],
     [exists |-> TRUE, cartItems |-> <<Item("p1", 1), Item("p2", 2)>>,
      paymentOption |-> default_payment_option, v |-> 2]}

Init ==
    /\ cart \in InitCarts
    /\ walletMoney \in InitWallets
    /\ addressSet \in BOOLEAN
    /\ pc = [p \in Procs |-> "idle"]
    /\ op = [p \in Procs |-> NoOp]
    /\ user = [p \in Procs |-> 0]
    /\ lcart = [p \in Procs |-> NullCart]
    /\ index = [p \in Procs |-> 0]
    /\ result = [p \in Procs |-> NoResult]
    /\ pendUser = [p \in Procs |-> <<>>]
    /\ pendCart = [p \in Procs |-> <<>>]
    /\ calls = 0
    /\ catalog = Catalog
    /\ jwt = NoJwt
    /\ h = [wallet0 |-> walletMoney, cart0 |-> cart, paid |-> 0, created |-> 0,
            req |-> [p \in Procs |-> NoHist]]

(* ------------------------------ helpers -------------------------------- *)
\* mutant: the comparison never matches
FirstIndexNoMatch(items, productId) == 0

\* the search loop with break: the first matching position, 0 if none
FirstIndex(items, productId) ==
    IF \E i \in 1..Len(items) : items[i].product.id = productId
    THEN CHOOSE i \in 1..Len(items) :
            /\ items[i].product.id = productId
            /\ \A j \in 1..(i - 1) : items[j].product.id # productId
    ELSE 0

\* mutant: the loop keeps the last position visited, not the last match
LastIndexVisited(items, productId) ==
    IF \E i \in 1..Len(items) : items[i].product.id = productId
    THEN Len(items)
    ELSE 0

\* mutant: the loop variable starts at the first position, not at "none"
LastIndexFromFirst(items, productId) ==
    IF \E i \in 1..Len(items) : items[i].product.id = productId
    THEN CHOOSE i \in 1..Len(items) :
            /\ items[i].product.id = productId
            /\ \A j \in (i + 1)..Len(items) : items[j].product.id # productId
    ELSE IF Len(items) > 0 THEN 1 ELSE 0

\* the search loop without break: the last matching position, 0 if none
LastIndex(items, productId) ==
    IF \E i \in 1..Len(items) : items[i].product.id = productId
    THEN CHOOSE i \in 1..Len(items) :
            /\ items[i].product.id = productId
            /\ \A j \in (i + 1)..Len(items) : items[j].product.id # productId
    ELSE 0

\* mutant: unshift instead of push
PushFront(items, item) == <<item>> \o items

\* cartItems.push(item)
Push(items, item) == Append(items, item)

\* mutant: splice(index) without a count removes everything from index on
SpliceToEnd(items, i) == SubSeq(items, 1, i - 1)

\* cartItems.splice(index, 1)
Splice(items, i) ==
    [j \in 1..(Len(items) - 1) |-> IF j < i THEN items[j] ELSE items[j + 1]]

RECURSIVE CartTotal(_)
\* the loop summing product.cost * quantity over the cart items
CartTotal(items) ==
    IF items = <<>> THEN 0
    ELSE Head(items).product.cost * Head(items).quantity + CartTotal(Tail(items))

RECURSIVE CatalogTotal(_)
\* the total of the line items at the unit costs the products collection holds
CatalogTotal(items) ==
    IF items = <<>> THEN 0
    ELSE Product_findOne(Head(items).product.id).cost * Head(items).quantity
         + CatalogTotal(Tail(items))

Finish(p, r) ==
    /\ pc' = [pc EXCEPT ![p] = "done"]
    /\ result' = [result EXCEPT ![p] = r]


Hist(p, field, value) == [h EXCEPT !.req[p][field] = value]

(* ---------------------- a request enters the service ------------------- *)
Ops ==
    {[name |-> "get", productId |-> NoOp.productId, quantity |-> NoOp.quantity],
     [name |-> "checkout", productId |-> NoOp.productId, quantity |-> NoOp.quantity]}
    \cup {[name |-> "add", productId |-> i, quantity |-> q] :
            i \in ProductIds, q \in Quantities}
    \cup {[name |-> "update", productId |-> i, quantity |-> q] :
            i \in ProductIds, q \in Quantities}
    \cup {[name |-> "delete", productId |-> i, quantity |-> NoOp.quantity] :
            i \in ProductIds}

FirstStep(name) ==
    CASE name = "get" -> "get_find"
      [] name = "add" -> "add_find"
      [] name = "update" -> "upd_find"
      [] name = "delete" -> "del_find"
      [] name = "checkout" -> "co_find"

\* a request slot is free once its call has ended and its saves have settled
Free(p) == pc[p] \in {"idle", "done"} /\ pendUser[p] = <<>> /\ pendCart[p] = <<>>

\* jwtVerify loads the user document of the request (User.findOne, done(null, user));
\* the controller then calls the service with that copy
Enter(p, o, pre) ==
    /\ calls < MaxCalls
    /\ calls' = calls + 1
    /\ op' = [op EXCEPT ![p] = o]
    /\ user' = [user EXCEPT ![p] = walletMoney]
    /\ lcart' = [lcart EXCEPT ![p] = NullCart]
    /\ index' = [index EXCEPT ![p] = 0]
    /\ pc' = [pc EXCEPT ![p] = FirstStep(o.name)]
    /\ result' = [result EXCEPT ![p] = NoResult]
    /\ h' = [h EXCEPT !.req[p] =
                [NoHist EXCEPT !.pre = pre,
                               !.overlap = \E q \in Procs : pc[q] \notin {"idle", "done"}]]
    /\ UNCHANGED <<cart, walletMoney, addressSet, catalog, jwt, pendUser, pendCart>>

\* request slots are interchangeable: a new request takes the first free one
FirstFree(p) == Free(p) /\ \A q \in Procs : q < p => ~Free(q)

\* requests arrive at any time
Call(p) == FirstFree(p) /\ \E o \in Ops : Enter(p, o, NoHist.pre)

\* the stored state a sequential request starts from
Stored == [cart |-> cart, walletMoney |-> walletMoney]

\* requests arrive one after the other, each after the previous one has
\* ended and every save it issued has settled
CallSeq(p) == FirstFree(p) /\ (\A q \in Procs : Free(q)) /\ \E o \in Ops : Enter(p, o, Stored)

(* ---------------------------- getCartByUser ---------------------------- *)
\* mutant: a missing cart is created on read, as addProductToCart does
GetFindCreates(p) ==
    /\ pc[p] = "get_find"
    /\ LET c == IF cart.exists THEN cart
                ELSE [exists |-> TRUE, cartItems |-> <<>>,
                      paymentOption |-> default_payment_option, v |-> 0] IN
       /\ cart' = c
       /\ lcart' = [lcart EXCEPT ![p] = c]
    /\ Finish(p, Returned)
    /\ UNCHANGED <<walletMoney, addressSet, catalog, jwt, op, user, index, pendUser,
                   pendCart, calls, h>>

GetFind(p) ==
    /\ pc[p] = "get_find"
    /\ lcart' = [lcart EXCEPT ![p] = cart]
    /\ IF ~cart.exists
       THEN Finish(p, ApiError(NOT_FOUND, "User does not have a cart"))
       ELSE Finish(p, Returned)
    /\ UNCHANGED <<cart, walletMoney, addressSet, catalog, jwt, op, user, index, pendUser,
                   pendCart, calls, h>>

(* --------------------------- addProductToCart -------------------------- *)
\* the search for productId among the items of the cart just obtained
AddSearch(p, c) ==
    IF FirstIndex(c.cartItems, op[p].productId) = 0
    THEN /\ pc' = [pc EXCEPT ![p] = "add_product"]
         /\ UNCHANGED result
    ELSE Finish(p, ApiError(BAD_REQUEST, "Product already in cart"))

AddFind(p) ==
    /\ pc[p] = "add_find"
    /\ lcart' = [lcart EXCEPT ![p] = cart]
    /\ IF ~cart.exists
       THEN /\ pc' = [pc EXCEPT ![p] = "add_create"]
            /\ UNCHANGED result
       ELSE AddSearch(p, cart)
    /\ UNCHANGED <<cart, walletMoney, addressSet, catalog, jwt, op, user, index, pendUser,
                   pendCart, calls, h>>

\* mutant: the cart created without the default payment option
NewCartNoPaymentOption ==
    [exists |-> TRUE, cartItems |-> <<>>, paymentOption |-> "", v |-> 0]

\* the document Cart.create stores: no items, the default payment option
NewCart ==
    [exists |-> TRUE, cartItems |-> <<>>,
     paymentOption |-> default_payment_option, v |-> 0]

\* Cart.create rejects: the email of a cart is unique per user, so creation
\* fails when a cart of the user has been stored since the findOne
CartCreateFails == cart.exists

\* mutant: the creation failure reported with the status of the other errors
CreateErrorBadRequest == ApiError(BAD_REQUEST, "User cart creation failed")

\* what addProductToCart throws when Cart.create rejects
CreateError == ApiError(INTERNAL_SERVER_ERROR, "User cart creation failed")

AddCreate(p) ==
    /\ pc[p] = "add_create"
    /\ IF CartCreateFails
       THEN /\ Finish(p, CreateError)
            /\ UNCHANGED <<cart, lcart, h>>
       ELSE /\ cart' = NewCart
            /\ lcart' = [lcart EXCEPT ![p] = NewCart]
            /\ h' = [h EXCEPT !.created = @ + 1]
            /\ AddSearch(p, NewCart)
    /\ UNCHANGED <<walletMoney, addressSet, catalog, jwt, op, user, index, pendUser,
                   pendCart, calls>>

AddProduct(p) ==
    /\ pc[p] = "add_product"
    /\ LET product == Product_findOne(op[p].productId) IN
       IF product = NullProduct
       THEN /\ Finish(p, ApiError(BAD_REQUEST, "Product doesn't exist in database"))
            /\ UNCHANGED lcart
       ELSE /\ lcart' = [lcart EXCEPT ![p].cartItems =
                   Push(@, [product |-> product, quantity |-> op[p].quantity])]
            /\ pc' = [pc EXCEPT ![p] = "add_save"]
            /\ UNCHANGED result
    /\ h' = Hist(p, "looked", TRUE)
    /\ UNCHANGED <<cart, walletMoney, addressSet, catalog, jwt, op, user, index, pendUser,
                   pendCart, calls>>

\* cart.save() after a push: the pushed item is appended to the stored array
AddSave(p) ==
    /\ pc[p] = "add_save"
    /\ cart' = [cart EXCEPT
                  !.cartItems = Push(@, lcart[p].cartItems[Len(lcart[p].cartItems)]),
                  !.v = @ + 1]
    /\ lcart' = [lcart EXCEPT ![p].v = @ + 1]
    /\ Finish(p, Returned)
    /\ UNCHANGED <<walletMoney, addressSet, catalog, jwt, op, user, index, pendUser,
                   pendCart, calls, h>>

(* -------------------------- updateProductInCart ------------------------ *)
UpdFind(p) ==
    /\ pc[p] = "upd_find"
    /\ lcart' = [lcart EXCEPT ![p] = cart]
    /\ IF ~cart.exists
       THEN Finish(p, ApiError(BAD_REQUEST, "User does not have a cart. Use POST"))
       ELSE /\ pc' = [pc EXCEPT ![p] = "upd_product"]
            /\ UNCHANGED result
    /\ UNCHANGED <<cart, walletMoney, addressSet, catalog, jwt, op, user, index, pendUser,
                   pendCart, calls, h>>

\* Product.findById resolves; then the search loop and the assignment.
\* index 0 at "upd_save" says the assignment changed nothing on the copy
\* (the quantity was already the given one), so save() has nothing to send.
UpdProduct(p) ==
    /\ pc[p] = "upd_product"
    /\ LET product == Product_findOne(op[p].productId)
           i == LastIndex(lcart[p].cartItems, op[p].productId) IN
       IF product = NullProduct
       THEN /\ Finish(p, ApiError(BAD_REQUEST, "Product doesn't exist in database"))
            /\ UNCHANGED <<lcart, index>>
       ELSE IF i = 0
       THEN /\ Finish(p, ApiError(BAD_REQUEST, "Product not in cart"))
            /\ UNCHANGED <<lcart, index>>
       ELSE /\ index' = [index EXCEPT ![p] =
                   IF lcart[p].cartItems[i].quantity = op[p].quantity THEN 0 ELSE i]
            /\ lcart' = [lcart EXCEPT ![p].cartItems[i].quantity = op[p].quantity]
            /\ pc' = [pc EXCEPT ![p] = "upd_save"]
            /\ UNCHANGED result
    /\ h' = Hist(p, "looked", TRUE)
    /\ UNCHANGED <<cart, walletMoney, addressSet, catalog, jwt, op, user, pendUser, pendCart, calls>>

\* cart.save() after cartItems[index].quantity = quantity
UpdSave(p) ==
    /\ pc[p] = "upd_save"
    /\ IF index[p] = 0
       THEN /\ Finish(p, Returned)
            /\ UNCHANGED cart
       ELSE IF cart.v = lcart[p].v
       THEN /\ cart' = [cart EXCEPT !.cartItems[index[p]].quantity = op[p].quantity]
            /\ Finish(p, Returned)
       ELSE /\ Finish(p, VersionError)
            /\ UNCHANGED cart
    /\ UNCHANGED <<walletMoney, addressSet, catalog, jwt, op, user, lcart, index, pendUser,
                   pendCart, calls, h>>

(* ------------------------- deleteProductFromCart ----------------------- *)
DelFind(p) ==
    /\ pc[p] = "del_find"
    /\ LET i == LastIndex(cart.cartItems, op[p].productId) IN
       IF ~cart.exists
       THEN /\ Finish(p, ApiError(BAD_REQUEST, "User does not have a cart"))
            /\ lcart' = [lcart EXCEPT ![p] = cart]
            /\ UNCHANGED index
       ELSE IF i = 0
       THEN /\ Finish(p, ApiError(BAD_REQUEST, "Product not in cart"))
            /\ lcart' = [lcart EXCEPT ![p] = cart]
            /\ UNCHANGED index
       ELSE /\ lcart' = [lcart EXCEPT ![p] =
                   [cart EXCEPT !.cartItems = Splice(@, i)]]
            /\ index' = [index EXCEPT ![p] = i]
            /\ pc' = [pc EXCEPT ![p] = "del_save"]
            /\ UNCHANGED result
    /\ UNCHANGED <<cart, walletMoney, addressSet, catalog, jwt, op, user, pendUser, pendCart,
                   calls, h>>

\* cart.save() after a splice: the whole array is replaced
DelSave(p) ==
    /\ pc[p] = "del_save"
    /\ IF cart.v = lcart[p].v
       THEN /\ cart' = [cart EXCEPT !.cartItems = lcart[p].cartItems, !.v = @ + 1]
            /\ lcart' = [lcart EXCEPT ![p].v = @ + 1]
            /\ Finish(p, Returned)
       ELSE /\ Finish(p, VersionError)
            /\ UNCHANGED <<cart, lcart>>
    /\ UNCHANGED <<walletMoney, addressSet, catalog, jwt, op, user, index, pendUser,
                   pendCart, calls, h>>

(* -------------------------------- checkout ----------------------------- *)
\* mutant: the status the other operations use for a missing cart
NoCartBadRequest == ApiError(BAD_REQUEST, "User does not have cart")

\* what checkout throws when the user has no cart
NoCartError == ApiError(NOT_FOUND, "User does not have cart")

CoFind(p) ==
    /\ pc[p] = "co_find"
    /\ lcart' = [lcart EXCEPT ![p] = cart]
    /\ IF ~cart.exists
       THEN Finish(p, NoCartError)
       ELSE IF Len(cart.cartItems) = 0
       THEN Finish(p, ApiError(BAD_REQUEST, "User does not have any Items in cart."))
       ELSE /\ pc' = [pc EXCEPT ![p] = "co_address"]
            /\ UNCHANGED result
    /\ UNCHANGED <<cart, walletMoney, addressSet, catalog, jwt, op, user, index, pendUser,
                   pendCart, calls, h>>

\* user.hasSetNonDefaultAddress()
hasSetNonDefaultAddress == addressSet

\* mutant: the operands of the comparison swapped
InsufficientBalanceSwapped(wallet, cartTotal) == cartTotal < wallet

\* mutant: a balance equal to the total is refused
InsufficientBalanceStrict(wallet, cartTotal) == wallet <= cartTotal

\* user.walletMoney < cartTotal
InsufficientBalance(wallet, cartTotal) == wallet < cartTotal

\* hasSetNonDefaultAddress resolves; then the total, the balance check, the
\* debit and the clear on the copies, and the two saves, issued and not awaited
CoAddress(p) ==
    /\ pc[p] = "co_address"
    /\ LET cartProductList == lcart[p].cartItems
           cartTotal == CartTotal(cartProductList) IN
       IF ~hasSetNonDefaultAddress
       THEN /\ Finish(p, ApiError(BAD_REQUEST, "user need to add address"))
            /\ UNCHANGED <<user, lcart, pendUser, pendCart, h>>
       ELSE IF Len(cartProductList) = 0
       THEN /\ Finish(p, ApiError(BAD_REQUEST, "Empty cart, add products to checkout"))
            /\ UNCHANGED <<user, lcart, pendUser, pendCart, h>>
       ELSE IF InsufficientBalance(user[p], cartTotal)
       THEN /\ Finish(p, ApiError(BAD_REQUEST, "Insufficient wallet balance"))
            /\ UNCHANGED <<user, lcart, pendUser, pendCart, h>>
       ELSE /\ user' = [user EXCEPT ![p] = @ - cartTotal]
            /\ pendUser' = [pendUser EXCEPT ![p] = <<user[p] - cartTotal>>]
            /\ lcart' = [lcart EXCEPT ![p].cartItems = <<>>]
            /\ pendCart' = [pendCart EXCEPT ![p] = <<lcart[p].v>>]
            /\ Finish(p, Returned)
            /\ h' = [h EXCEPT !.paid = @ + cartTotal,
                              !.req[p].total = cartTotal,
                              !.req[p].owed = CatalogTotal(cartProductList),
                              !.req[p].userSave = "issued",
                              !.req[p].cartSave = "issued"]
    /\ UNCHANGED <<cart, walletMoney, addressSet, catalog, jwt, op, index, calls>>

\* the user.save() of a checkout reaches the database
UserSave(p) ==
    /\ pendUser[p] # <<>>
    /\ walletMoney' = pendUser[p][1]
    /\ pendUser' = [pendUser EXCEPT ![p] = <<>>]
    /\ h' = Hist(p, "userSave", "applied")
    /\ UNCHANGED <<cart, addressSet, catalog, jwt, pc, op, user, lcart, index, result,
                   pendCart, calls>>

\* the userCart.save() of a checkout reaches the database; nobody awaits it,
\* so its rejection is lost
CartSave(p) ==
    /\ pendCart[p] # <<>>
    /\ IF cart.v = pendCart[p][1]
       THEN /\ cart' = [cart EXCEPT !.cartItems = <<>>, !.v = @ + 1]
            /\ h' = [h EXCEPT !.req[p].cartSave = "applied",
                              !.req[p].cleared = CartTotal(cart.cartItems)]
       ELSE /\ UNCHANGED cart
            /\ h' = Hist(p, "cartSave", "rejected")
    /\ pendCart' = [pendCart EXCEPT ![p] = <<>>]
    /\ UNCHANGED <<walletMoney, addressSet, catalog, jwt, pc, op, user, lcart, index, result,
                   pendUser, calls>>

(* ------------------------------ jwtVerify ------------------------------ *)
\* passport calls jwtVerify(payload, done) with the payload of a verified token
JwtCall(payload) ==
    /\ jwt.pc \in {"idle", "done"}
    /\ jwt' = [pc |-> "type", payload |-> payload, done |-> <<>>]
    /\ UNCHANGED <<cart, walletMoney, addressSet, pc, op, user, lcart, index,
                   result, pendUser, pendCart, calls, catalog, h>>

\* the token type check: done is called with the error, and, there being no
\* return, the function goes on to the lookup
JwtType ==
    /\ jwt.pc = "type"
    /\ jwt' = [jwt EXCEPT
                 !.pc = "find_one",
                 !.done = IF jwt.payload.type # tokenTypes.ACCESS
                          THEN Append(@, Done("Invalid token type", "false", ""))
                          ELSE @]
    /\ UNCHANGED <<cart, walletMoney, addressSet, pc, op, user, lcart, index,
                   result, pendUser, pendCart, calls, catalog, h>>

\* the callback of User.findOne({_id: userId}): the query failed (err), or it
\* found the user, or there is no such user
JwtFindOne(err) ==
    /\ jwt.pc = "find_one"
    /\ LET userId == jwt.payload.sub IN
       jwt' = [jwt EXCEPT
                 !.pc = "done",
                 !.done = IF err
                          THEN Append(@, Done("findOne failed", "undefined", ""))
                          ELSE IF userId \in UserIds
                          THEN Append(@, Done("null", userId, ""))
                          ELSE Append(@, Done("null", "false", "user not found"))]
    /\ UNCHANGED <<cart, walletMoney, addressSet, pc, op, user, lcart, index,
                   result, pendUser, pendCart, calls, catalog, h>>

(* --------------------------- specifications ---------------------------- *)
Step(p) ==
    \/ GetFind(p)
    \/ AddFind(p) \/ AddCreate(p) \/ AddProduct(p) \/ AddSave(p)
    \/ UpdFind(p) \/ UpdProduct(p) \/ UpdSave(p)
    \/ DelFind(p) \/ DelSave(p)
    \/ CoFind(p) \/ CoAddress(p)
    \/ UserSave(p) \/ CartSave(p)

\* requests of the user overlap freely
Next == \E p \in Procs : Call(p) \/ Step(p)

Spec == Init /\ [][Next]_vars

\* requests of the user come one at a time
NextSeq == \E p \in Procs : CallSeq(p) \/ Step(p)

SpecSeq == Init /\ [][NextSeq]_vars

(* ----------------------- the catalog changes a price ------------------- *)
\* the unit cost of a product is changed in the products collection, by
\* whoever maintains it; once in a run, between two requests
SetCost(productId, cost) ==
    /\ catalog = Catalog
    /\ \A p \in Procs : Free(p)
    /\ cost # catalog[productId]
    /\ catalog' = [catalog EXCEPT ![productId] = cost]
    /\ UNCHANGED <<cart, walletMoney, addressSet, pc, op, user, lcart, index,
                   result, pendUser, pendCart, calls, jwt, h>>

\* requests come one at a time while prices change
NextPrice ==
    \/ \E p \in Procs : CallSeq(p) \/ Step(p)
    \/ \E productId \in DOMAIN Catalog, cost \in Costs : SetCost(productId, cost)

SpecPrice == Init /\ [][NextPrice]_vars

\* requests come one at a time, each token passport receives goes through
\* jwtVerify
NextJwt ==
    \/ \E p \in Procs : CallSeq(p) \/ Step(p)
    \/ \E payload \in Payloads : JwtCall(payload)
    \/ JwtType
    \/ \E err \in BOOLEAN : JwtFindOne(err)

SpecJwt == Init /\ [][NextJwt]_vars

(* ------------------------------ properties ----------------------------- *)
Req(p) == h.req[p]
Ended(p, name) == pc[p] = "done" /\ op[p].name = name
Has(items, productId) == \E i \in 1..Len(items) : items[i].product.id = productId

\* C1: the wallet debit and the cart clear of a checkout are one atomic unit:
\* no stored state, which any other request can read, holds the debit of a
\* checkout while the cart still holds its line items, or the cleared cart
\* while the debit is not stored.
C1_DebitAndClearAtomic ==
    \A p \in Procs :
        /\ ~(/\ Req(p).userSave = "applied"
             /\ Req(p).cartSave # "applied"
             /\ cart.cartItems # <<>>)
        /\ ~(Req(p).cartSave = "applied" /\ Req(p).userSave # "applied")

\* C2: concurrent checkouts of the user never both succeed against the same
\* funds: once every request has ended and every save has settled, the stored
\* balance is the initial balance minus the totals of the checkouts that
\* reported success.
C2_PaidExactlyOnce ==
    (/\ \A p \in Procs : Free(p)
     /\ \E p, q \in Procs :
            /\ p # q /\ Req(q).overlap
            /\ Ended(p, "checkout") /\ Ended(q, "checkout")
            /\ Req(p).total > 0 /\ Req(q).total > 0)
    => walletMoney = h.wallet0 - h.paid

\* C3: the stored wallet balance is never negative, under every interleaving
\* of addItem, updateItem, deleteItem and checkout.
C3_WalletNonNegative == walletMoney >= 0

\* C3 witness: two overlapping checkouts both succeeded, the debit is stored
C3_Witness ==
    /\ h.paid > h.wallet0
    /\ \E p \in Procs : Req(p).userSave = "applied"
    /\ walletMoney = 0

\* C4: when a checkout run on its own returns, the stored balance is already
\* the previous balance minus the cart total, and the stored cart still
\* exists and has no line items.
C4_CheckoutDoneAtReturn ==
    \A p \in Procs :
        (Ended(p, "checkout") /\ result[p] = Returned) =>
            /\ walletMoney =
                   Req(p).pre.walletMoney - CartTotal(Req(p).pre.cart.cartItems)
            /\ cart.exists
            /\ cart.cartItems = <<>>

\* a checkout that got past the cart and address checks
PastChecks(p) ==
    /\ Ended(p, "checkout")
    /\ Req(p).pre.cart.exists
    /\ Req(p).pre.cart.cartItems # <<>>
    /\ addressSet

\* C5: a checkout with a balance below the cart total fails with
\* InvalidRequest and leaves the stored balance and cart as they were; with a
\* balance equal to the cart total it succeeds and the balance it leaves is 0.
C5_InsufficientBalance ==
    \A p \in Procs :
        PastChecks(p) =>
            LET w == Req(p).pre.walletMoney
                t == CartTotal(Req(p).pre.cart.cartItems) IN
            /\ w < t =>
                /\ Kind(result[p]) = "InvalidRequest"
                /\ result[p].message = "Insufficient wallet balance"
                /\ Stored = Req(p).pre
                /\ Req(p).userSave = "none" /\ Req(p).cartSave = "none"
            /\ w = t =>
                /\ result[p] = Returned
                /\ pendUser[p] \in {<<>>, <<0>>}
                /\ Free(p) => walletMoney = 0

\* C5 witness: a checkout refused for a balance below the cart total
C5_Witness ==
    \E p \in Procs :
        /\ PastChecks(p)
        /\ Req(p).pre.walletMoney < CartTotal(Req(p).pre.cart.cartItems)
        /\ Kind(result[p]) = "InvalidRequest"

\* the other case of C5: the balance equals the total and the debit is stored
C5_WitnessEqual ==
    \E p \in Procs :
        /\ PastChecks(p) /\ Free(p)
        /\ Req(p).pre.walletMoney = CartTotal(Req(p).pre.cart.cartItems)
        /\ walletMoney = 0

\* C6: checkout checks cart-exists, then cart-non-empty, then the address:
\* NotFound without a cart, InvalidRequest for an empty cart whatever the
\* address, InvalidRequest for a non-empty cart without address; none of
\* these failures changes the stored wallet or cart.
C6_CheckoutPreconditions ==
    \A p \in Procs :
        Ended(p, "checkout") =>
            LET pre == Req(p).pre
                untouched == /\ Stored = pre
                             /\ Req(p).userSave = "none"
                             /\ Req(p).cartSave = "none" IN
            /\ ~pre.cart.exists =>
                /\ Kind(result[p]) = "NotFound"
                /\ untouched
            /\ (pre.cart.exists /\ pre.cart.cartItems = <<>>) =>
                /\ Kind(result[p]) = "InvalidRequest"
                /\ result[p].message = "User does not have any Items in cart."
                /\ untouched
            /\ (pre.cart.exists /\ pre.cart.cartItems # <<>> /\ ~addressSet) =>
                /\ Kind(result[p]) = "InvalidRequest"
                /\ result[p].message = "user need to add address"
                /\ untouched

\* C6 witness: an empty cart and no address; the empty cart is what is reported
C6_Witness ==
    \E p \in Procs :
        /\ Ended(p, "checkout")
        /\ Req(p).pre.cart.exists /\ Req(p).pre.cart.cartItems = <<>>
        /\ ~addressSet
        /\ result[p].message = "User does not have any Items in cart."

\* C7: a product identifier appears at most once among the line items of the
\* stored cart, under every interleaving of the operations.
C7_NoDuplicateLines ==
    \A i, j \in 1..Len(cart.cartItems) :
        i # j => cart.cartItems[i].product.id # cart.cartItems[j].product.id

\* the line items of a cart document; a missing cart has none
ItemsOf(c) == IF c.exists THEN c.cartItems ELSE <<>>

\* C8: a successful addItem returns and stores a cart with exactly one line
\* item for productId, with the given quantity, appended after the line
\* items the cart had, which keep product, quantity and order; a missing
\* cart is created first, empty and with the default payment option.
C8_AddAppendsOneLine ==
    \A p \in Procs :
        LET before == ItemsOf(Req(p).pre.cart) IN
        /\ (Ended(p, "add") /\ result[p] = Returned) =>
              /\ lcart[p].cartItems =
                     Append(before, Item(op[p].productId, op[p].quantity))
              /\ cart = lcart[p]
              /\ Cardinality({i \in 1..Len(cart.cartItems) :
                     cart.cartItems[i].product.id = op[p].productId}) = 1
              /\ cart.paymentOption =
                     IF Req(p).pre.cart.exists THEN Req(p).pre.cart.paymentOption
                     ELSE default_payment_option
        /\ (op[p].name = "add" /\ pc[p] = "add_product" /\ ~Req(p).pre.cart.exists) =>
              /\ cart.exists
              /\ cart.cartItems = <<>>
              /\ cart.paymentOption = default_payment_option

\* C8 witness: an addition to a cart that already held a line item
C8_Witness ==
    \E p \in Procs :
        /\ Ended(p, "add") /\ result[p] = Returned
        /\ Len(ItemsOf(Req(p).pre.cart)) >= 1
        /\ Len(cart.cartItems) = Len(ItemsOf(Req(p).pre.cart)) + 1

\* C9: addItem fails with InvalidRequest when the cart already holds
\* productId, before any catalog lookup and without touching the line, and
\* fails with InvalidRequest when productId is neither in the cart nor in
\* the catalog; both failures leave the line items of the cart unchanged.
C9_AddRejects ==
    \A p \in Procs :
        Ended(p, "add") =>
            LET before == ItemsOf(Req(p).pre.cart) IN
            /\ Has(before, op[p].productId) =>
                /\ Kind(result[p]) = "InvalidRequest"
                /\ result[p].message = "Product already in cart"
                /\ ~Req(p).looked
                /\ Stored = Req(p).pre
            /\ (~Has(before, op[p].productId)
                    /\ Product_findOne(op[p].productId) = NullProduct) =>
                /\ Kind(result[p]) = "InvalidRequest"
                /\ result[p].message = "Product doesn't exist in database"
                /\ ItemsOf(cart) = before

\* C9 witness: the product is already in the cart
C9_Witness ==
    \E p \in Procs :
        /\ Ended(p, "add")
        /\ Has(ItemsOf(Req(p).pre.cart), op[p].productId)
        /\ Kind(result[p]) = "InvalidRequest"

\* the other case of C9: the product is not in the catalog
C9_WitnessUnknown ==
    \E p \in Procs :
        /\ Ended(p, "add")
        /\ op[p].productId = "px"
        /\ Len(ItemsOf(Req(p).pre.cart)) >= 1
        /\ Kind(result[p]) = "InvalidRequest"

\* C10: a successful updateItem sets the quantity of exactly the line item
\* for productId; the number, order and products of the line items, the
\* other quantities and the wallet are unchanged.
C10_UpdateFrame ==
    \A p \in Procs :
        (Ended(p, "update") /\ result[p] = Returned) =>
            LET before == Req(p).pre.cart.cartItems IN
            /\ Has(before, op[p].productId)
            /\ Len(cart.cartItems) = Len(before)
            /\ \A i \in 1..Len(before) :
                  /\ cart.cartItems[i].product = before[i].product
                  /\ cart.cartItems[i].quantity =
                        IF before[i].product.id = op[p].productId
                        THEN op[p].quantity
                        ELSE before[i].quantity
            /\ lcart[p].cartItems = cart.cartItems
            /\ cart.paymentOption = Req(p).pre.cart.paymentOption
            /\ walletMoney = Req(p).pre.walletMoney

\* C10 witness: the quantity of one of two line items has changed
C10_Witness ==
    \E p \in Procs :
        /\ Ended(p, "update") /\ result[p] = Returned
        /\ Len(cart.cartItems) = 2
        /\ cart.cartItems # Req(p).pre.cart.cartItems

\* C11: updateItem fails with InvalidRequest and leaves the stored cart as
\* it was when the user has no cart, else when productId is not in the
\* catalog, else when no line item matches productId; it creates no cart.
C11_UpdateRejects ==
    \A p \in Procs :
        Ended(p, "update") =>
            LET pre == Req(p).pre
                known == Product_findOne(op[p].productId) # NullProduct IN
            /\ ~pre.cart.exists =>
                /\ Kind(result[p]) = "InvalidRequest"
                /\ result[p].message = "User does not have a cart. Use POST"
                /\ ~Req(p).looked
                /\ Stored = pre
            /\ (pre.cart.exists /\ ~known) =>
                /\ Kind(result[p]) = "InvalidRequest"
                /\ result[p].message = "Product doesn't exist in database"
                /\ Stored = pre
            /\ (pre.cart.exists /\ known
                    /\ ~Has(pre.cart.cartItems, op[p].productId)) =>
                /\ Kind(result[p]) = "InvalidRequest"
                /\ result[p].message = "Product not in cart"
                /\ Stored = pre

\* C11 witness: a catalog product that is not in a non-empty cart
C11_Witness ==
    \E p \in Procs :
        /\ Ended(p, "update")
        /\ Product_findOne(op[p].productId) # NullProduct
        /\ Len(Req(p).pre.cart.cartItems) >= 1
        /\ result[p].message = "Product not in cart"

\* the other cases of C11: no cart; a product that is not in the catalog
C11_WitnessNoCart ==
    \E p \in Procs :
        Ended(p, "update") /\ ~Req(p).pre.cart.exists /\ ~cart.exists

\* the line items without those of productId
Without(items, productId) ==
    LET Keep(x) == x.product.id # productId IN SelectSeq(items, Keep)

\* C12: deleteItem removes exactly the line item for productId and leaves
\* the other line items and the wallet as they were; it fails with
\* InvalidRequest and changes nothing when the user has no cart or the cart
\* has no line item for productId.
C12_DeleteFrame ==
    \A p \in Procs :
        Ended(p, "delete") =>
            LET pre == Req(p).pre IN
            /\ (pre.cart.exists /\ Has(pre.cart.cartItems, op[p].productId)) =>
                /\ result[p] = Returned
                /\ cart.exists
                /\ cart.cartItems = Without(pre.cart.cartItems, op[p].productId)
                /\ Len(cart.cartItems) = Len(pre.cart.cartItems) - 1
                /\ cart.paymentOption = pre.cart.paymentOption
                /\ walletMoney = pre.walletMoney
            /\ ~pre.cart.exists =>
                /\ Kind(result[p]) = "InvalidRequest"
                /\ Stored = pre
            /\ (pre.cart.exists /\ ~Has(pre.cart.cartItems, op[p].productId)) =>
                /\ Kind(result[p]) = "InvalidRequest"
                /\ result[p].message = "Product not in cart"
                /\ Stored = pre

\* C12 witness: the first of two line items has been removed
C12_Witness ==
    \E p \in Procs :
        /\ Ended(p, "delete") /\ result[p] = Returned
        /\ Len(Req(p).pre.cart.cartItems) = 2
        /\ Req(p).pre.cart.cartItems[1].product.id = op[p].productId
        /\ Len(cart.cartItems) = 1

\* C13: getCart fails with NotFound when the user has no cart and otherwise
\* returns the stored cart; the step changes no stored cart, wallet or
\* product and nothing of any other request, so getCart calls placed
\* anywhere in a run leave the state and the other results as they are.
C13_GetCartReadOnly ==
    [][\A p \in Procs :
          (pc[p] = "get_find" /\ pc'[p] = "done") =>
              /\ result'[p] = IF cart.exists THEN Returned
                              ELSE ApiError(NOT_FOUND, "User does not have a cart")
              /\ Kind(result'[p]) = IF cart.exists THEN "Ok" ELSE "NotFound"
              /\ lcart'[p] = cart
              /\ UNCHANGED <<cart, walletMoney, addressSet, catalog,
                             pendUser, pendCart>>
              /\ \A q \in Procs \ {p} :
                    /\ pc'[q] = pc[q] /\ result'[q] = result[q]
                    /\ lcart'[q] = lcart[q] /\ user'[q] = user[q]]_vars

\* C13 witness: getCart has failed with NotFound while another request runs
C13_Witness ==
    \E p \in Procs :
        /\ Ended(p, "get")
        /\ Kind(result[p]) = "NotFound"
        /\ ~cart.exists
        /\ \E q \in Procs \ {p} : pc[q] \notin {"idle", "done"}

\* the other case of C13: getCart has returned a cart with line items
C13_WitnessFound ==
    \E p \in Procs :
        Ended(p, "get") /\ result[p] = Returned /\ Len(lcart[p].cartItems) = 2

SerialCall(st, o) ==
    LET c == st.cart
        product == Product_findOne(o.productId)
        same == [cart |-> c, walletMoney |-> st.walletMoney]
        Throw(status, message) ==
            [same EXCEPT !.cart = c] @@ [result |-> ApiError(status, message)]
        Return(c2, w2) == [cart |-> c2, walletMoney |-> w2, result |-> Returned]
    IN
    CASE o.name = "get" ->
            IF ~c.exists THEN Throw(NOT_FOUND, "User does not have a cart")
            ELSE Return(c, st.walletMoney)
      [] o.name = "add" ->
            LET c1 == IF c.exists THEN c ELSE NewCart IN
            IF FirstIndex(c1.cartItems, o.productId) # 0
            THEN [cart |-> c1, walletMoney |-> st.walletMoney,
                  result |-> ApiError(BAD_REQUEST, "Product already in cart")]
            ELSE IF product = NullProduct
            THEN [cart |-> c1, walletMoney |-> st.walletMoney,
                  result |-> ApiError(BAD_REQUEST, "Product doesn't exist in database")]
            ELSE Return([c1 EXCEPT
                            !.cartItems = Push(@, [product |-> product,
                                                   quantity |-> o.quantity]),
                            !.v = @ + 1],
                        st.walletMoney)
      [] o.name = "update" ->
            LET i == LastIndex(c.cartItems, o.productId) IN
            IF ~c.exists
            THEN Throw(BAD_REQUEST, "User does not have a cart. Use POST")
            ELSE IF product = NullProduct
            THEN Throw(BAD_REQUEST, "Product doesn't exist in database")
            ELSE IF i = 0 THEN Throw(BAD_REQUEST, "Product not in cart")
            ELSE Return([c EXCEPT !.cartItems[i].quantity = o.quantity],
                        st.walletMoney)
      [] o.name = "delete" ->
            LET i == LastIndex(c.cartItems, o.productId) IN
            IF ~c.exists THEN Throw(BAD_REQUEST, "User does not have a cart")
            ELSE IF i = 0 THEN Throw(BAD_REQUEST, "Product not in cart")
            ELSE Return([c EXCEPT !.cartItems = Splice(@, i), !.v = @ + 1],
                        st.walletMoney)
      [] o.name = "checkout" ->
            LET cartTotal == CartTotal(c.cartItems) IN
            IF ~c.exists THEN [same EXCEPT !.cart = c] @@ [result |-> NoCartError]
            ELSE IF Len(c.cartItems) = 0
            THEN Throw(BAD_REQUEST, "User does not have any Items in cart.")
            ELSE IF ~hasSetNonDefaultAddress
            THEN Throw(BAD_REQUEST, "user need to add address")
            ELSE IF InsufficientBalance(st.walletMoney, cartTotal)
            THEN Throw(BAD_REQUEST, "Insufficient wallet balance")
            ELSE Return([c EXCEPT !.cartItems = <<>>, !.v = @ + 1],
                        st.walletMoney - cartTotal)

\* the call of slot p in a serial order; a request that was refused for a
\* conflict with another one (a failed cart creation, a version conflict)
\* counts as a call that did nothing
SerialStep(st, p) ==
    IF Kind(result[p]) \in {"Conflict", "Internal"}
    THEN [cart |-> st.cart, walletMoney |-> st.walletMoney, result |-> result[p]]
    ELSE SerialCall(st, op[p])

\* the calls of slots a then b, one after the other from the initial state,
\* give results of the kinds the two requests got and the stored state of now
SerialOrder(a, b) ==
    LET s1 == SerialStep([cart |-> h.cart0, walletMoney |-> h.wallet0], a)
        s2 == SerialStep([cart |-> s1.cart, walletMoney |-> s1.walletMoney], b)
    IN  /\ Kind(s1.result) = Kind(result[a])
        /\ Kind(s2.result) = Kind(result[b])
        /\ s2.walletMoney = walletMoney
        /\ s2.cart.exists = cart.exists
        /\ s2.cart.cartItems = cart.cartItems
        /\ s2.cart.paymentOption = cart.paymentOption

\* C15: the operations of one user are serialized: when two overlapping
\* requests have ended and their saves have settled, the stored cart and
\* wallet and the two results are those of one of the two serial orders.
C15_Serializable ==
    (/\ calls = 2
     /\ \A p \in Procs : Free(p)
     /\ \E p, q \in Procs :
           /\ p < q /\ pc[p] = "done" /\ pc[q] = "done" /\ Req(q).overlap)
    => \E p, q \in Procs :
           /\ p # q /\ pc[p] = "done" /\ pc[q] = "done"
           /\ SerialOrder(p, q)

\* the particular case C15 names: two overlapping addItem calls for distinct
\* products that both succeed leave both line items in the stored cart
C15_NoLostAdd ==
    \A p, q \in Procs :
        (/\ p # q /\ Free(p) /\ Free(q)
         /\ Ended(p, "add") /\ Ended(q, "add")
         /\ result[p] = Returned /\ result[q] = Returned
         /\ op[p].productId # op[q].productId)
        => (Has(cart.cartItems, op[p].productId)
            /\ Has(cart.cartItems, op[q].productId))

\* C16: the total a successful checkout debits is the sum of the unit cost
\* the catalog holds at the time of checkout times the quantity, not of the
\* cost captured when the item was added.
C16_CurrentPrice ==
    \A p \in Procs :
        (Ended(p, "checkout") /\ result[p] = Returned) =>
            Req(p).total = Req(p).owed

\* C17: no failure of a write of checkout is swallowed: a checkout that has
\* reported success has no save that the database rejected.
C17_NoSwallowedFailure ==
    \A p \in Procs :
        (Ended(p, "checkout") /\ result[p] = Returned) =>
            Req(p).cartSave # "rejected"

\* C18: once a successful checkout and its saves have settled, the amount it
\* debited is the total cost of the line items its save removed from the
\* stored cart, whatever addItem, updateItem and deleteItem calls ran meanwhile.
C18_DebitEqualsCleared ==
    \A p \in Procs :
        (/\ Ended(p, "checkout") /\ result[p] = Returned
         /\ Req(p).userSave = "applied"
         /\ Req(p).cartSave \in {"applied", "rejected"})
        => Req(p).total = Req(p).cleared

\* C19 as stated: an addItem call that fails leaves the stored state, the
\* absence of a cart included, exactly as it was before the call.
C19_FailedAddNoEffect ==
    \A p \in Procs :
        (Ended(p, "add") /\ result[p] # Returned) => Stored = Req(p).pre

\* C19: an addItem call that fails leaves the wallet and an existing cart
\* exactly as they were; for a user who had no cart it fails with
\* InvalidRequest and leaves behind an empty cart with the default payment
\* option, which a following getCart finds.
C19_FailedAddLeavesEmptyCart ==
    \A p \in Procs :
        (Ended(p, "add") /\ result[p] # Returned) =>
            /\ walletMoney = Req(p).pre.walletMoney
            /\ IF Req(p).pre.cart.exists
               THEN cart = Req(p).pre.cart
               ELSE /\ Kind(result[p]) = "InvalidRequest"
                    /\ cart.exists
                    /\ cart.cartItems = <<>>
                    /\ cart.paymentOption = default_payment_option

\* C19 witness: addItem of an unknown product for a user without cart has
\* failed and the user now has a cart
C19_Witness ==
    \E p \in Procs :
        /\ Ended(p, "add") /\ result[p] # Returned
        /\ ~Req(p).pre.cart.exists
        /\ cart.exists

\* C20: a jwtVerify call that has ended has invoked done exactly once, and
\* for a payload whose type is not ACCESS no invocation carries anything but
\* the error "Invalid token type" without a user.
C20_DoneExactlyOnce ==
    jwt.pc = "done" =>
        /\ Len(jwt.done) = 1
        /\ jwt.payload.type # tokenTypes.ACCESS =>
               \A i \in 1..Len(jwt.done) :
                   jwt.done[i] = Done("Invalid token type", "false", "")

====
